---- MODULE Spec2Model ----
(***************************************************************************)
(* MyVec<T> of vectors/src/lib.rs: a growable buffer built on raw         *)
(* allocation.  The model carries the three fields of the struct, the     *)
(* heap of the system allocator the struct points into, and ghost         *)
(* variables that record the history of the calls.                        *)
(* The copy of MyVec in vectors/src/main.rs runs beside it, on the same   *)
(* calls, in the variable bin.                                            *)
(***************************************************************************)
EXTENDS Integers, Sequences, FiniteSets, TLC

(* ---------------------------------------------------------------- bounds *)
\* width of usize in bits (the machine word of the build)
WordBits == 5
\* number of push_back calls in one run
MaxPush == 9
\* number of regions the allocator can hand out
NumRegions == 2

(* ------------------------------------------------------------- constants *)
\* lib.rs:34, the capacity of the first region
InitialCap == 4
\* lib.rs:36, the factor of every later growth
GrowthFactor == 2

UsizeModulus == 2 ^ WordBits
UsizeMax == UsizeModulus - 1
\* Layout::array fails when the byte size exceeds isize::MAX
IsizeMax == 2 ^ (WordBits - 1) - 1

\* the null pointer alloc returns on failure (lib.rs:28)
Null == 0
\* NonNull::dangling(): a non-null address that no region has (lib.rs:14)
Dangling == 1
\* the addresses alloc can return
Regions == (Dangling + 1) .. (Dangling + NumRegions)
\* the content of a MaybeUninit slot that was never written (lib.rs:6)
Uninit == 0

\* size_of::<T>() of the instantiations the model covers; 0 is a zero-sized T
ElemSizes == {0, 1, 4}
\* the values of T the runs use: a zero-sized type has one value
ValuesOf(sz) == IF sz = 0 THEN {1} ELSE {1, 2}
\* Option<_>
None == << >>
Some(x) == << x >>

VARIABLES
    ptr,        \* MyVec.ptr: Dangling or the address of the current region
    capacity,   \* MyVec.capacity
    len,        \* MyVec.len
    heap,       \* the allocator: address -> [live, size (slots), bytes, align, mem]
    elemSize,   \* size_of::<T>()
    status,     \* "live" | "panicked" | "dropped" | "ub"
    ret,        \* the last call and what it returned
    pushed,     \* ghost: the values pushed, each as last overwritten via get_mut
    written,    \* ghost: a write through a get_mut reference has happened
    stats,      \* ghost: allocator calls, elements copied, growths
    destructed, \* ghost: the slots whose element destructor has run, in order
    bin         \* the MyVec of main.rs run on the same calls: its fields, its
                \* heap, its counters, its status and what its last call returned

vars == << ptr, capacity, len, heap, elemSize, status, ret, pushed, written,
           stats, destructed, bin >>

(* ------------------------------------------------------------- allocator *)
FreeRegion ==
    [live |-> FALSE, size |-> 0, bytes |-> 0, align |-> 0, mem |-> << >>]
EmptyHeap == [r \in Regions |-> FreeRegion]
LiveRegions(h) == {r \in Regions : h[r].live}

\* align_of::<T>() of the instantiations: 1 for a zero-sized T, the size of
\* the scalar otherwise
align_of == IF elemSize = 0 THEN 1 ELSE elemSize

\* a layout computed for bytes instead of elements: Layout::array::<u8>(n)
layout_array_u8(n) ==
    [ok |-> n <= IsizeMax, bytes |-> n, align |-> 1,
     slots |-> IF elemSize = 0 THEN n ELSE n \div elemSize]
\* a layout computed without the isize::MAX check on the byte size
layout_array_unchecked(n) ==
    [ok |-> TRUE, bytes |-> n * elemSize, align |-> align_of, slots |-> n]
\* Layout::array::<MaybeUninit<T>>(n): Err when n * size_of::<T>() > isize::MAX
layout_array(n) ==
    [ok |-> n * elemSize <= IsizeMax, bytes |-> n * elemSize,
     align |-> align_of, slots |-> n]

\* alloc(layout): null, or a fresh region of uninitialized slots.  The
\* allocator is first-fit: it returns the lowest free address.  For a layout
\* of zero bytes (a zero-sized T) the call is outside alloc's contract; what a
\* build does then is either of the same two outcomes.
alloc(h, layout) ==
    LET free == Regions \ LiveRegions(h) IN
    {[ptr |-> Null, heap |-> h]} \cup
    (IF free = {} THEN {}
     ELSE LET p == CHOOSE r \in free : \A q \in free : r <= q IN
          {[ptr |-> p,
            heap |-> [h EXCEPT ![p] =
                        [live |-> TRUE, size |-> layout.slots,
                         bytes |-> layout.bytes, align |-> layout.align,
                         mem |-> [k \in 1 .. layout.slots |-> Uninit]]]]})

\* dealloc(p, layout) is defined for a live region allocated with that layout
CanDealloc(h, p, layout) ==
    /\ p \in Regions /\ h[p].live
    /\ h[p].bytes = layout.bytes /\ h[p].align = layout.align
\* a grow that never gives the old region back
dealloc_noop(h, p) == h
dealloc(h, p) == [h EXCEPT ![p] = FreeRegion]

\* slot off of the region at p can be accessed
InRegion(h, p, off) == p \in Regions /\ h[p].live /\ off < h[p].size
\* ptr::write(p.add(off), MaybeUninit::new(v)).  A write outside every live
\* region is undefined: the build either faults or goes on, the write having
\* landed outside the storage of the container.
Store(h, p, off, v) ==
    IF InRegion(h, p, off)
    THEN {[fault |-> FALSE, heap |-> [h EXCEPT ![p].mem[off + 1] = v]]}
    ELSE {[fault |-> TRUE, heap |-> h], [fault |-> FALSE, heap |-> h]}
\* reading slot off of p as a T: the element when the slot is initialized,
\* any bit pattern otherwise
Deref(h, p, off) ==
    IF InRegion(h, p, off) /\ h[p].mem[off + 1] # Uninit
    THEN {h[p].mem[off + 1]}
    ELSE ValuesOf(elemSize)

(* ----------------------------------------------------------------- MyVec *)
\* a constructor that claims the first region's capacity without allocating
new_eager == [ptr |-> Dangling, capacity |-> InitialCap, len |-> 0]
\* MyVec::new
new == [ptr |-> Dangling, capacity |-> 0, len |-> 0]

\* a constructor with an eager capacity and no region behind it
main_new_eager == [ptr |-> Dangling, capacity |-> InitialCap, len |-> 0]
\* main.rs:28-34, MyVec::new of the copy in main.rs
main_new == [ptr |-> Dangling, capacity |-> 0, len |-> 0]

ZeroStats == [allocs |-> 0, frees |-> 0, copied |-> 0, growths |-> 0]

Init ==
    /\ elemSize \in ElemSizes
    /\ ptr = new.ptr
    /\ capacity = new.capacity
    /\ len = new.len
    /\ heap = EmptyHeap
    /\ status = "live"
    /\ ret = [op |-> "new", idx |-> 0, val |-> None]
    /\ pushed = << >>
    /\ written = FALSE
    /\ stats = ZeroStats
    /\ destructed = << >>
    /\ bin = [ptr |-> main_new.ptr, capacity |-> main_new.capacity,
              len |-> main_new.len, heap |-> EmptyHeap, stats |-> ZeroStats,
              status |-> "live",
              ret |-> [op |-> "new", idx |-> 0, val |-> None]]

\* the container, its heap and the counters as one value
Self == [ptr |-> ptr, capacity |-> capacity, len |-> len, heap |-> heap,
         stats |-> stats]

\* how a call ends: it returns ("ok"), it panics, or it leaves defined behaviour
Ended(s, how) ==
    [outcome |-> how, ptr |-> s.ptr, capacity |-> s.capacity, len |-> s.len,
     heap |-> s.heap, stats |-> s.stats]

\* a * b on usize: a build with overflow checks panics when the product does
\* not fit, a build without them wraps
usize_mul(a, b) ==
    IF a * b <= UsizeMax
    THEN {[panic |-> FALSE, val |-> a * b]}
    ELSE {[panic |-> TRUE, val |-> 0],
          [panic |-> FALSE, val |-> (a * b) % UsizeModulus]}

\* a first region of a single slot
new_cap_one(cap) ==
    IF cap = 0
    THEN {[panic |-> FALSE, val |-> 1]}
    ELSE usize_mul(cap, GrowthFactor)
\* growth by one slot at a time
new_cap_plus_one(cap) ==
    IF cap = 0
    THEN {[panic |-> FALSE, val |-> InitialCap]}
    ELSE {[panic |-> FALSE, val |-> (cap + 1) % UsizeModulus]}
\* growth by a fixed step of InitialCap slots instead of doubling
new_cap_step(cap) ==
    IF cap = 0
    THEN {[panic |-> FALSE, val |-> InitialCap]}
    ELSE {[panic |-> FALSE, val |-> (cap + InitialCap) % UsizeModulus]}
\* grow, lib.rs:33-37: the new capacity
new_cap(cap) ==
    IF cap = 0
    THEN {[panic |-> FALSE, val |-> InitialCap]}
    ELSE usize_mul(cap, GrowthFactor)

\* allocate_raw without the null check on what alloc returned
allocate_raw_unchecked(h, cap) ==
    IF ~(cap > 0)
    THEN {[panic |-> TRUE, ptr |-> Null, heap |-> h, called |-> 0]}
    ELSE LET layout == layout_array(cap) IN
         IF ~layout.ok
         THEN {[panic |-> TRUE, ptr |-> Null, heap |-> h, called |-> 0]}
         ELSE {[panic |-> FALSE, ptr |-> a.ptr, heap |-> a.heap,
                called |-> 1] : a \in alloc(h, layout)}
\* MyVec::allocate_raw: assert, layout, alloc, null check
allocate_raw(h, cap) ==
    IF ~(cap > 0)
    THEN {[panic |-> TRUE, ptr |-> Null, heap |-> h, called |-> 0]}
    ELSE LET layout == layout_array(cap) IN
         IF ~layout.ok
         THEN {[panic |-> TRUE, ptr |-> Null, heap |-> h, called |-> 0]}
         ELSE {[panic |-> a.ptr = Null, ptr |-> a.ptr, heap |-> a.heap,
                called |-> 1] : a \in alloc(h, layout)}

\* ptr::copy_nonoverlapping(src, dst, count) is defined when both ranges lie
\* in live regions
CanCopy(h, src, dst, count) ==
    count = 0 \/ (InRegion(h, src, count - 1) /\ InRegion(h, dst, count - 1))
\* a copy with source and destination exchanged
copy_reversed(h, src, dst, count) ==
    [h EXCEPT ![src].mem =
        [k \in 1 .. h[src].size |->
            IF k <= count THEN h[dst].mem[k] ELSE h[src].mem[k]]]
\* a copy that stops one element short
copy_short(h, src, dst, count) ==
    [h EXCEPT ![dst].mem =
        [k \in 1 .. h[dst].size |->
            IF k < count THEN h[src].mem[k] ELSE h[dst].mem[k]]]
copy_nonoverlapping(h, src, dst, count) ==
    [h EXCEPT ![dst].mem =
        [k \in 1 .. h[dst].size |->
            IF k <= count THEN h[src].mem[k] ELSE h[dst].mem[k]]]

\* a grow that forgets to store new_ptr: self.ptr still names the old region
grow_move_keep_ptr(s, nc, a) ==
    LET t == [s EXCEPT !.heap = a.heap,
                       !.stats.allocs = @ + a.called] IN
    IF s.capacity > 0
    THEN IF ~CanCopy(t.heap, s.ptr, a.ptr, s.len)
         THEN {Ended(t, "ub")}
         ELSE LET c == [t EXCEPT
                          !.heap = copy_nonoverlapping(@, s.ptr, a.ptr, s.len),
                          !.stats.copied = @ + s.len]
                  old_layout == layout_array(s.capacity) IN
              IF ~old_layout.ok
              THEN {Ended(c, "panic")}
              ELSE IF ~CanDealloc(c.heap, s.ptr, old_layout)
              THEN {Ended(c, "ub")}
              ELSE {Ended([c EXCEPT !.heap = dealloc(@, s.ptr),
                                    !.stats.frees = @ + 1,
                                    !.stats.growths = @ + 1,
                                    !.ptr = s.ptr,
                                    !.capacity = nc], "ok")}
    ELSE {Ended([t EXCEPT !.stats.growths = @ + 1,
                          !.ptr = s.ptr,
                          !.capacity = nc], "ok")}
\* grow after allocate_raw returned new_ptr (lib.rs:41-55)
grow_move(s, nc, a) ==
    LET t == [s EXCEPT !.heap = a.heap,
                       !.stats.allocs = @ + a.called] IN
    IF s.capacity > 0
    THEN IF ~CanCopy(t.heap, s.ptr, a.ptr, s.len)
         THEN {Ended(t, "ub")}
         ELSE LET c == [t EXCEPT
                          !.heap = copy_nonoverlapping(@, s.ptr, a.ptr, s.len),
                          !.stats.copied = @ + s.len]
                  old_layout == layout_array(s.capacity) IN
              IF ~old_layout.ok
              THEN {Ended(c, "panic")}
              ELSE IF ~CanDealloc(c.heap, s.ptr, old_layout)
              THEN {Ended(c, "ub")}
              ELSE {Ended([c EXCEPT !.heap = dealloc(@, s.ptr),
                                    !.stats.frees = @ + 1,
                                    !.stats.growths = @ + 1,
                                    !.ptr = a.ptr,
                                    !.capacity = nc], "ok")}
    ELSE {Ended([t EXCEPT !.stats.growths = @ + 1,
                          !.ptr = a.ptr,
                          !.capacity = nc], "ok")}

\* a grow that releases the old region before it asks for the new one
grow_free_first(s) ==
    LET s0 == IF s.capacity > 0
              THEN [s EXCEPT !.heap = dealloc(@, s.ptr),
                             !.stats.frees = @ + 1]
              ELSE s IN
    UNION {IF nc.panic
           THEN {Ended(s0, "panic")}
           ELSE UNION {IF a.panic
                       THEN {Ended([s0 EXCEPT !.stats.allocs = @ + a.called],
                                   "panic")}
                       ELSE grow_move(s0, nc.val, a)
                       : a \in allocate_raw(s0.heap, nc.val)}
           : nc \in new_cap(s.capacity)}
\* MyVec::grow
grow(s) ==
    UNION {IF nc.panic
           THEN {Ended(s, "panic")}
           ELSE UNION {IF a.panic
                       THEN {Ended([s EXCEPT !.stats.allocs = @ + a.called],
                                   "panic")}
                       ELSE grow_move(s, nc.val, a)
                       : a \in allocate_raw(s.heap, nc.val)}
           : nc \in new_cap(s.capacity)}

\* a push_back that grows on every call
must_grow_always(s) == TRUE
\* a fullness test that misses len == capacity
must_grow_strict(s) == s.len > s.capacity
\* a fullness test that grows one push early
must_grow_early(s) == s.len + 1 >= s.capacity
\* push_back, lib.rs:60-62: whether to grow first
must_grow(s) == s.len >= s.capacity

\* the length incremented before the write instead of after it
push_dst_after(s) == s.len + 1
\* push_back, lib.rs:65: the slot the new element is written to
push_dst(s) == s.len

\* a length kept in a narrower counter, which wraps early
next_len_narrow(s) == (s.len + 1) % 8
\* push_back, lib.rs:69: self.len += 1
next_len(s) == (s.len + 1) % UsizeModulus

\* MyVec::push_back
push_back(s, new_elem) ==
    UNION {IF g.outcome # "ok"
           THEN {g}
           ELSE {IF w.fault
                 THEN Ended(g, "ub")
                 ELSE [g EXCEPT !.heap = w.heap, !.len = next_len(g)]
                 : w \in Store(g.heap, g.ptr, push_dst(g), new_elem)}
           : g \in (IF must_grow(s) THEN grow(s) ELSE {Ended(s, "ok")})}

\* a bounds check that lets index == len through
get_inclusive(index) ==
    IF index > len THEN None ELSE Some([base |-> ptr, off |-> index])
\* MyVec::get: the slot the returned reference points at
get(index) ==
    IF index >= len THEN None ELSE Some([base |-> ptr, off |-> index])

\* a bounds check of get_mut that lets index == len through
get_mut_inclusive(index) ==
    IF index > len THEN None ELSE Some([base |-> ptr, off |-> index])
\* get_mut without the pointer offset: always the first slot
get_mut_first(index) ==
    IF index >= len THEN None ELSE Some([base |-> ptr, off |-> 0])
\* MyVec::get_mut
get_mut(index) ==
    IF index >= len THEN None ELSE Some([base |-> ptr, off |-> index])

\* what a caller can read through the Option<&T> r
Read(r) ==
    IF r = None THEN {None}
    ELSE {Some(x) : x \in Deref(heap, r[1].base, r[1].off)}

\* MyVec::is_empty
is_empty == len = 0

\* a len() that answers with the other counter
self_len_capacity(s) == s.capacity
\* MyVec::len
self_len(s) == s.len
\* MyVec::capacity
self_capacity(s) == s.capacity

\* the indices the writes of a run use: every slot and some beyond
Indices == 0 .. (MaxPush + 1)
\* the indices the reads of a run use: the first slot, the last one, the
\* first one past the end, and the largest usize
ProbeIndices == {0, len, UsizeMax} \cup (IF len > 0 THEN {len - 1} ELSE {})

StatusOf(outcome) ==
    IF outcome = "ok" THEN "live"
    ELSE IF outcome = "panic" THEN "panicked" ELSE "ub"

(* ------------------------------------------------- the MyVec of main.rs *)
\* main.rs:120-125, MyVec::allocate_raw
main_allocate_raw(h, cap) ==
    IF ~(cap > 0)
    THEN {[panic |-> TRUE, ptr |-> Null, heap |-> h, called |-> 0]}
    ELSE LET layout == layout_array(cap) IN
         IF ~layout.ok
         THEN {[panic |-> TRUE, ptr |-> Null, heap |-> h, called |-> 0]}
         ELSE {[panic |-> a.ptr = Null, ptr |-> a.ptr, heap |-> a.heap,
                called |-> 1] : a \in alloc(h, layout)}

\* main.rs:194-198, the new capacity of grow
main_new_cap(cap) ==
    IF cap = 0
    THEN {[panic |-> FALSE, val |-> 4]}
    ELSE usize_mul(cap, 2)

\* main.rs:204-237, grow after allocate_raw returned new_ptr
main_grow_move(s, nc, a) ==
    LET t == [s EXCEPT !.heap = a.heap,
                       !.stats.allocs = @ + a.called] IN
    IF s.capacity > 0
    THEN IF ~CanCopy(t.heap, s.ptr, a.ptr, s.len)
         THEN {Ended(t, "ub")}
         ELSE LET c == [t EXCEPT
                          !.heap = copy_nonoverlapping(@, s.ptr, a.ptr, s.len),
                          !.stats.copied = @ + s.len]
                  old_layout == layout_array(s.capacity) IN
              IF ~old_layout.ok
              THEN {Ended(c, "panic")}
              ELSE IF ~CanDealloc(c.heap, s.ptr, old_layout)
              THEN {Ended(c, "ub")}
              ELSE {Ended([c EXCEPT !.heap = dealloc(@, s.ptr),
                                    !.stats.frees = @ + 1,
                                    !.stats.growths = @ + 1,
                                    !.ptr = a.ptr,
                                    !.capacity = nc], "ok")}
    ELSE {Ended([t EXCEPT !.stats.growths = @ + 1,
                          !.ptr = a.ptr,
                          !.capacity = nc], "ok")}

\* main.rs:192-238, MyVec::grow
main_grow(s) ==
    UNION {IF nc.panic
           THEN {Ended(s, "panic")}
           ELSE UNION {IF a.panic
                       THEN {Ended([s EXCEPT !.stats.allocs = @ + a.called],
                                   "panic")}
                       ELSE main_grow_move(s, nc.val, a)
                       : a \in main_allocate_raw(s.heap, nc.val)}
           : nc \in main_new_cap(s.capacity)}

\* main.rs:258-276, MyVec::push_back
main_push_back(s, new_elem) ==
    UNION {IF g.outcome # "ok"
           THEN {g}
           ELSE {IF w.fault
                 THEN Ended(g, "ub")
                 ELSE [g EXCEPT !.heap = w.heap,
                                !.len = (g.len + 1) % UsizeModulus]
                 : w \in Store(g.heap, g.ptr, g.len, new_elem)}
           : g \in (IF s.len >= s.capacity
                    THEN main_grow(s) ELSE {Ended(s, "ok")})}

\* main.rs:304-321, MyVec::get
main_get(s, index) ==
    IF index >= s.len THEN None ELSE Some([base |-> s.ptr, off |-> index])
\* main.rs:329-338, MyVec::get_mut
main_get_mut(s, index) ==
    IF index >= s.len THEN None ELSE Some([base |-> s.ptr, off |-> index])
\* main.rs:341-343, MyVec::len
main_len(s) == s.len
\* main.rs:346-348, MyVec::capacity
main_capacity(s) == s.capacity
\* main.rs:351-353, MyVec::is_empty
main_is_empty(s) == s.len = 0
\* main.rs has no Drop impl either: nothing is dealloc'ed at the end of scope
main_drop_frees(s) == {}

\* what a caller of the main.rs copy can read through the Option<&T> r
MainRead(s, r) ==
    IF r = None THEN {None}
    ELSE {Some(x) : x \in Deref(s.heap, r[1].base, r[1].off)}

\* the answer the allocator gave during a call that took before to after
AllocAnswer(before, after) ==
    IF after.stats.allocs = before.stats.allocs THEN "none"
    ELSE IF LiveRegions(after.heap) \ LiveRegions(before.heap) = {}
         THEN "refused" ELSE "granted"

\* the main.rs copy after the same push_back(v), its allocator answering as
\* the one of lib.rs did in the call that ended in o
MainPushBack(v, o) ==
    IF bin.status # "live" THEN {bin}
    ELSE LET all == main_push_back(bin, v)
             same == {b \in all :
                        AllocAnswer(bin, b) = AllocAnswer(Self, o)} IN
         {[ptr |-> b.ptr, capacity |-> b.capacity, len |-> b.len,
           heap |-> b.heap, stats |-> b.stats,
           status |-> StatusOf(b.outcome),
           ret |-> [op |-> "push_back", idx |-> bin.len, val |-> Some(v)]]
          : b \in IF same # {} THEN same ELSE all}
\* the main.rs copy after a call that only returns val
MainReturn(op, i, val) ==
    IF bin.status # "live" THEN bin
    ELSE [bin EXCEPT !.ret = [op |-> op, idx |-> i, val |-> val]]
\* the main.rs copy after get_mut(i) and, when that gave a reference, the
\* assignment of w through it
MainWrite(i, w) ==
    IF bin.status # "live" THEN {bin}
    ELSE IF main_get_mut(bin, i) = None
    THEN {[bin EXCEPT !.ret = [op |-> "write", idx |-> i, val |-> None]]}
    ELSE {[bin EXCEPT !.heap = o.heap,
                      !.status = IF o.fault THEN "ub" ELSE @,
                      !.ret = [op |-> "write", idx |-> i, val |-> Some(w)]]
          : o \in Store(bin.heap, main_get_mut(bin, i)[1].base,
                        main_get_mut(bin, i)[1].off, w)}
\* the main.rs copy going out of scope
MainDrop ==
    IF bin.status # "live" THEN bin
    ELSE [bin EXCEPT
            !.heap = [r \in Regions |->
                        IF r \in main_drop_frees(bin) THEN FreeRegion
                        ELSE bin.heap[r]],
            !.stats.frees = @ + Cardinality(main_drop_frees(bin)),
            !.status = "dropped",
            !.ret = [op |-> "drop", idx |-> 0, val |-> None]]

(* --------------------------------------------------------------- actions *)
PushBack(v) ==
    /\ status = "live"
    /\ Len(pushed) < MaxPush
    /\ \E o \in push_back(Self, v) :
        /\ ptr' = o.ptr
        /\ capacity' = o.capacity
        /\ len' = o.len
        /\ heap' = o.heap
        /\ stats' = o.stats
        /\ status' = StatusOf(o.outcome)
        /\ pushed' = IF o.outcome = "ok" THEN Append(pushed, v) ELSE pushed
        /\ ret' = [op |-> "push_back", idx |-> len, val |-> Some(v)]
        /\ bin' \in MainPushBack(v, o)
    /\ UNCHANGED << elemSize, written, destructed >>

Get(i) ==
    /\ status = "live"
    /\ \E r \in Read(get(i)) :
        ret' = [op |-> "get", idx |-> i, val |-> r]
    /\ \E b \in MainRead(bin, main_get(bin, i)) : bin' = MainReturn("get", i, b)
    /\ UNCHANGED << ptr, capacity, len, heap, elemSize, status, pushed,
                    written, stats, destructed >>

GetMut(i) ==
    /\ status = "live"
    /\ \E r \in Read(get_mut(i)) :
        ret' = [op |-> "get_mut", idx |-> i, val |-> r]
    /\ \E b \in MainRead(bin, main_get_mut(bin, i)) :
        bin' = MainReturn("get_mut", i, b)
    /\ UNCHANGED << ptr, capacity, len, heap, elemSize, status, pushed,
                    written, stats, destructed >>

\* get_mut(i) followed by an assignment through the returned reference
GetMutWrite(i, w) ==
    /\ status = "live"
    /\ get_mut(i) # None
    /\ \E o \in Store(heap, get_mut(i)[1].base, get_mut(i)[1].off, w) :
        /\ heap' = o.heap
        /\ status' = IF o.fault THEN "ub" ELSE status
    /\ pushed' = [k \in 1 .. Len(pushed) |-> IF k = i + 1 THEN w ELSE pushed[k]]
    /\ written' = TRUE
    /\ ret' = [op |-> "write", idx |-> i, val |-> Some(w)]
    /\ bin' \in MainWrite(i, w)
    /\ UNCHANGED << ptr, capacity, len, elemSize, stats, destructed >>

QueryLen ==
    /\ status = "live"
    /\ ret' = [op |-> "len", idx |-> 0, val |-> Some(self_len(Self))]
    /\ bin' = MainReturn("len", 0, Some(main_len(bin)))
    /\ UNCHANGED << ptr, capacity, len, heap, elemSize, status, pushed,
                    written, stats, destructed >>

QueryCapacity ==
    /\ status = "live"
    /\ ret' = [op |-> "capacity", idx |-> 0, val |-> Some(self_capacity(Self))]
    /\ bin' = MainReturn("capacity", 0, Some(main_capacity(bin)))
    /\ UNCHANGED << ptr, capacity, len, heap, elemSize, status, pushed,
                    written, stats, destructed >>

QueryIsEmpty ==
    /\ status = "live"
    /\ ret' = [op |-> "is_empty", idx |-> 0, val |-> Some(is_empty)]
    /\ bin' = MainReturn("is_empty", 0, Some(main_is_empty(bin)))
    /\ UNCHANGED << ptr, capacity, len, heap, elemSize, status, pushed,
                    written, stats, destructed >>

\* the regions dealloc'ed and the slots destructed when a MyVec goes out of
\* scope: the struct has no Drop impl and its fields have no drop glue
drop_frees(s) == {}
drop_destructs(s) == << >>

Drop ==
    /\ status = "live"
    /\ heap' = [r \in Regions |->
                  IF r \in drop_frees(Self) THEN FreeRegion ELSE heap[r]]
    /\ stats' = [stats EXCEPT !.frees = @ + Cardinality(drop_frees(Self))]
    /\ destructed' = destructed \o drop_destructs(Self)
    /\ status' = "dropped"
    /\ ret' = [op |-> "drop", idx |-> 0, val |-> None]
    /\ bin' = MainDrop
    /\ UNCHANGED << ptr, capacity, len, elemSize, pushed, written >>

Next ==
    \/ \E v \in ValuesOf(elemSize) : PushBack(v)
    \/ \E i \in ProbeIndices : Get(i)
    \/ \E i \in ProbeIndices : GetMut(i)
    \/ \E i \in Indices, w \in ValuesOf(elemSize) : GetMutWrite(i, w)
    \/ QueryLen
    \/ QueryCapacity
    \/ QueryIsEmpty
    \/ Drop

Spec == Init /\ [][Next]_vars

(* ---------------------------------------------------------------- claims *)
\* every value of usize
Usize == 0 .. UsizeMax
\* the step is a push_back that returned
PushReturned == ret'.op = "push_back" /\ status' = "live"

\* C1: after N completed push_back calls and no write through get_mut,
\* len == N and get(i) yields exactly the (i+1)-th pushed value for every
\* i < N, whatever growths happened on the way.
C1_InsertionOrder ==
    (status = "live" /\ ~written) =>
        /\ len = Len(pushed)
        /\ \A i \in 0 .. (Len(pushed) - 1) :
              Read(get(i)) = {Some(pushed[i + 1])}
\* six distinct-looking pushes, two growths, with a read as the last call
C1_Witness ==
    /\ status = "live" /\ ~written
    /\ Len(pushed) = 6 /\ stats.growths = 2 /\ stats.copied = 4
    /\ pushed[1] # pushed[2] /\ pushed[4] # pushed[5]
    /\ ret.op = "get" /\ ret.idx = 5 /\ ret.val = Some(pushed[6])

\* C2: get(i) is Some iff i < len, for every usize i; the reference of a
\* Some points at an initialized slot below len of the live region, and a
\* get call leaves the container live.
C2_BoundsLaw ==
    /\ status = "live" =>
          \A i \in Usize :
              /\ (get(i) # None) <=> (i < len)
              /\ get(i) # None =>
                    /\ get(i)[1].off = i
                    /\ InRegion(heap, get(i)[1].base, i)
                    /\ heap[get(i)[1].base].mem[i + 1] # Uninit
    /\ ret.op = "get" =>
          /\ status = "live"
          /\ (ret.val # None) <=> (ret.idx < len)
\* get(len) on a container of three elements returned None
C2_Witness ==
    /\ ret.op = "get" /\ ret.idx = len /\ ret.val = None /\ len = 3

\* C3: a push_back(v) that returns has raised len by exactly one, and get
\* at the old len then yields v, with or without a growth.
C3_PushPost ==
    [][PushReturned =>
         /\ len' = len + 1
         /\ \A i \in Usize : i = len => (Read(get(i)))' = {ret'.val}]_vars
\* the push that filled slot 4 right after the growth to capacity 8
C3_Witness ==
    /\ ret.op = "push_back" /\ status = "live"
    /\ len = 5 /\ capacity = 8 /\ stats.growths = 2
    /\ Read(get(4)) = {ret.val}

\* C4: a push_back that returns leaves get(i) as it was for every i below
\* the old len, also when it relocated the elements; capacity changes only
\* with a growth.
C4_ContentPreserved ==
    [][PushReturned =>
         /\ \A i \in Usize : i < len => (Read(get(i)))' = Read(get(i))
         /\ capacity' # capacity => stats'.growths = stats.growths + 1]_vars
\* a growth that moved four elements to another region
C4_Witness ==
    /\ ret.op = "push_back" /\ status = "live"
    /\ len = 5 /\ stats.copied = 4 /\ stats.frees = 1
    /\ pushed[1] # pushed[3]

\* C5: 0 <= len <= capacity in every state; capacity is at least the number
\* of values pushed, and at least 4 once a push has returned.
C5_LenWithinCapacity ==
    /\ 0 <= len /\ len <= capacity
    /\ capacity >= Len(pushed)
    /\ Len(pushed) >= 1 => capacity >= 4
\* a full container
C5_Witness == len = capacity /\ len = 8 /\ status = "live"

\* C6: the container new() returns, before any push, has len 0, capacity 0,
\* is empty, get(0) is None, and the allocator was never called.
C6_NewIsEmpty ==
    (status = "live" /\ pushed = << >>) =>
        /\ len = 0 /\ capacity = 0 /\ is_empty
        /\ get(0) = None
        /\ ptr = Dangling
        /\ stats.allocs = 0 /\ LiveRegions(heap) = {}
        /\ ret.op = "get" /\ ret.idx = 0 => ret.val = None
\* get(0) answered None on the new container
C6_Witness ==
    /\ pushed = << >> /\ status = "live"
    /\ ret.op = "get" /\ ret.idx = 0 /\ ret.val = None

\* C7: once the container is destroyed, no region allocated for it is still
\* allocated, every region it obtained was released exactly once, and the
\* destructors of the elements in [0, len) have run once each, in slot order.
C7_DropReleases ==
    status = "dropped" =>
        /\ LiveRegions(heap) = {}
        /\ stats.frees = stats.growths
        /\ destructed = [k \in 1 .. len |-> k - 1]

\* C8: after the k-th growth capacity is 4 * 2^(k-1), and it is 0 before
\* the first one.
C8_CapacityProgression ==
    capacity = IF stats.growths = 0 THEN 0 ELSE 4 * 2 ^ (stats.growths - 1)
\* the third growth has happened
C8_Witness == stats.growths = 3 /\ capacity = 16 /\ len = 9

\* C9: whenever get_mut is called, get_mut(i) is Some iff i < len and names
\* the slot get(i) names, for every usize i; a
\* write through it leaves len, capacity, ptr and the regions as they were,
\* leaves get(j) as it was for every j other than i, and get(i) then yields
\* the written value.
C9_GetMutFrame ==
    [][/\ ret'.op = "get_mut" =>
            /\ (ret'.val # None) <=> (ret'.idx < len)
            /\ ret'.val \in Read(get(ret'.idx))
            /\ \A i \in Usize :
                  /\ (get_mut(i) # None) <=> (i < len)
                  /\ get_mut(i) = get(i)
       /\ ret'.op = "write" =>
            /\ len' = len /\ capacity' = capacity /\ ptr' = ptr
            /\ status' = status
            /\ \A r \in Regions :
                  /\ heap'[r].live = heap[r].live
                  /\ heap'[r].size = heap[r].size
            /\ \A j \in 0 .. len :
                  IF j = ret'.idx
                  THEN (Read(get(j)))' = {ret'.val}
                  ELSE (Read(get(j)))' = Read(get(j))]_vars
\* slot 1 of three was overwritten with a value other than its neighbours'
C9_Witness ==
    /\ ret.op = "write" /\ ret.idx = 1 /\ status = "live"
    /\ len = 3 /\ Read(get(1)) = {ret.val}
    /\ Read(get(0)) # Read(get(1)) /\ Read(get(2)) # Read(get(1))

\* C10: a push_back whose growth asks for more than isize::MAX bytes, or
\* whose alloc call returns null, ends in a panic without having written
\* the element: len, the heap and the fields are as before the call.
C10_FatalOnAllocFailure ==
    [][ret'.op = "push_back" =>
         LET requested == IF capacity = 0 THEN 4 ELSE capacity * 2
             overflow == len >= capacity /\ requested * elemSize > IsizeMax
             refused ==
                 /\ stats'.allocs = stats.allocs + 1
                 /\ LiveRegions(heap') \ LiveRegions(heap) = {}
         IN  (overflow \/ refused) =>
                /\ status' = "panicked"
                /\ len' = len /\ capacity' = capacity /\ ptr' = ptr
                /\ heap' = heap /\ pushed' = pushed]_vars
\* alloc refused the second region while four elements were stored
C10_Witness ==
    /\ status = "panicked" /\ ret.op = "push_back"
    /\ len = 4 /\ capacity = 4
    /\ stats.allocs = 2 /\ stats.growths = 1
\* the layout of the region asked for exceeded isize::MAX bytes
C10_OverflowReached ==
    /\ status = "panicked" /\ ret.op = "push_back"
    /\ len = capacity /\ stats.allocs = stats.growths
    /\ (IF capacity = 0 THEN 4 ELSE capacity * 2) * elemSize > IsizeMax

\* slot k of the current region holds a constructed element
Initialized(k) == InRegion(heap, ptr, k) /\ heap[ptr].mem[k + 1] # Uninit

\* C11: of the current region the slots [0, len) are initialized and the
\* slots [len, capacity) are not; get and get_mut hand out a reference only
\* to a slot below len, and the copy of a growth reads no slot at or
\* beyond len.
C11_InitializedPrefix ==
    [][/\ \A k \in 0 .. (capacity' - 1) : (Initialized(k))' <=> (k < len')
       /\ \A k \in 0 .. (len' - 1) : (Initialized(k))'
       /\ ret'.op \in {"get", "get_mut", "write"} /\ ret'.val # None =>
             ret'.idx < len
       /\ stats'.copied # stats.copied =>
             /\ ret'.op = "push_back"
             /\ stats'.copied - stats.copied <= len]_vars
\* a region of eight slots, five of them initialized, read at its last element
C11_Witness ==
    /\ status = "live" /\ capacity = 8 /\ len = 5
    /\ Initialized(4) /\ ~Initialized(5) /\ ~Initialized(7)
    /\ ret.op = "get" /\ ret.idx = 4 /\ ret.val # None

\* C12: len(), capacity(), is_empty() and get() return the current len, the
\* current capacity, len == 0 and the element (or None), always return, and
\* leave the fields, the heap and every element as they were.
C12_PureQueries ==
    [][ret'.op \in {"len", "capacity", "is_empty", "get"} =>
         /\ status' = "live"
         /\ ret'.op = "len" => ret'.val = Some(len)
         /\ ret'.op = "capacity" => ret'.val = Some(capacity)
         /\ ret'.op = "is_empty" => ret'.val = Some(len = 0)
         /\ ret'.op = "get" => ret'.val \in Read(get(ret'.idx))
         /\ len' = len /\ capacity' = capacity /\ ptr' = ptr
         /\ heap' = heap
         /\ \A i \in 0 .. len : (Read(get(i)))' = Read(get(i))]_vars
\* len() answered 5 on a container of capacity 8
C12_Witness ==
    /\ ret.op = "len" /\ ret.val = Some(5) /\ capacity = 8 /\ status = "live"

\* C13: len and capacity never decrease, and only a push_back step changes
\* either of them.
C13_Monotone ==
    [][/\ len' >= len
       /\ capacity' >= capacity
       /\ (len' # len \/ capacity' # capacity) => ret'.op = "push_back"]_vars
\* the container was written to, read and destroyed after its ninth push
C13_Witness ==
    /\ len = 9 /\ capacity = 16 /\ written /\ status = "dropped"

\* the step is one in which a growth completed
Grew == stats'.growths = stats.growths + 1

\* C14: a growth takes capacity 0 to 4 and any other capacity to exactly
\* twice its value, and capacity changes in no other way.
C14_GrowthRule ==
    [][/\ Grew => capacity' = IF capacity = 0 THEN 4 ELSE 2 * capacity
       /\ capacity' # capacity => Grew]_vars
\* the growth from 8 to 16 slots
C14_Witness ==
    /\ stats.growths = 3 /\ capacity = 16 /\ len = 9
    /\ ret.op = "push_back" /\ ret.idx = 8

\* C15: a push_back that returns has grown iff len == capacity held when it
\* started; a push_back started with len < capacity returns without any
\* allocator call or copy and leaves capacity and ptr; no other call grows.
C15_GrowOnlyWhenFull ==
    [][/\ PushReturned => (Grew <=> len = capacity)
       /\ (ret'.op = "push_back" /\ len < capacity) =>
             /\ status' = "live"
             /\ stats' = stats
             /\ capacity' = capacity /\ ptr' = ptr
             /\ LiveRegions(heap') = LiveRegions(heap)
       /\ ret'.op # "push_back" =>
             /\ stats'.growths = stats.growths
             /\ stats'.allocs = stats.allocs
             /\ stats'.copied = stats.copied]_vars
\* the push into the sixth slot of eight, which did not grow
C15_Witness ==
    /\ ret.op = "push_back" /\ ret.idx = 5 /\ status = "live"
    /\ len = 6 /\ capacity = 8 /\ stats.growths = 2 /\ stats.allocs = 2

\* C16: a growth from a non-zero capacity puts the len elements at the same
\* offsets of another region, frees the old region once, with the layout it
\* was allocated with, runs no destructor, and leaves ptr on the new region;
\* after every step at most one region is allocated.
C16_Relocation ==
    [][/\ (Grew /\ capacity > 0) =>
             /\ ptr' # ptr
             /\ heap[ptr].live /\ ~heap'[ptr].live
             /\ heap[ptr].bytes = capacity * elemSize
             /\ heap[ptr].align = align_of
             /\ heap'[ptr'].live
             /\ \A k \in 1 .. len : heap'[ptr'].mem[k] = heap[ptr].mem[k]
             /\ stats'.copied = stats.copied + len
             /\ stats'.frees = stats.frees + 1
             /\ stats'.allocs = stats.allocs + 1
             /\ destructed' = destructed
       /\ Cardinality(LiveRegions(heap')) <= 1]_vars
\* four one-byte elements were moved to the second region, the first freed
C16_Witness ==
    /\ elemSize = 1 /\ stats.frees = 1 /\ stats.copied = 4
    /\ status = "live" /\ len = 6
    /\ ptr = Dangling + 2 /\ ~heap[Dangling + 1].live
    /\ heap[ptr].mem[1] # heap[ptr].mem[2]

\* the step is a push_back whose alloc call returned null
AllocRefused ==
    /\ ret'.op = "push_back"
    /\ stats'.allocs = stats.allocs + 1
    /\ LiveRegions(heap') \ LiveRegions(heap) = {}

\* C17: when the alloc call of a growth fails, the old region is still
\* allocated with its content, nothing was freed or copied, and len,
\* capacity, ptr and every get(i) are as before the push_back.
C17_NoPartialGrowth ==
    [][AllocRefused =>
         /\ stats'.frees = stats.frees /\ stats'.copied = stats.copied
         /\ stats'.growths = stats.growths
         /\ len' = len /\ capacity' = capacity /\ ptr' = ptr
         /\ \A r \in Regions : heap'[r] = heap[r]
         /\ capacity > 0 => heap'[ptr].live
         /\ \A i \in 0 .. len : (Read(get(i)))' = Read(get(i))]_vars
\* the growth from four one-byte elements failed in alloc
C17_Witness ==
    /\ status = "panicked" /\ elemSize = 1
    /\ len = 4 /\ capacity = 4 /\ stats.allocs = 2 /\ stats.frees = 0
    /\ heap[ptr].live /\ heap[ptr].mem[1] # heap[ptr].mem[4]

\* C18: while the container exists, capacity == 0 means ptr is the dangling
\* sentinel and no region is allocated, and capacity > 0 means exactly one
\* region is allocated, the one ptr names, of capacity slots,
\* capacity * size_of(T) bytes and alignment align_of(T).
C18_StorageAccounting ==
    status \in {"live", "panicked"} =>
        IF capacity = 0
        THEN ptr = Dangling /\ LiveRegions(heap) = {}
        ELSE /\ LiveRegions(heap) = {ptr}
             /\ heap[ptr].size = capacity
             /\ heap[ptr].bytes = capacity * elemSize
             /\ heap[ptr].align = align_of
\* the second region, of eight one-byte slots
C18_Witness ==
    /\ status = "live" /\ elemSize = 1 /\ capacity = 8
    /\ heap[ptr].bytes = 8 /\ stats.frees = 1

\* C19: the growth from capacity 0 copies nothing and frees nothing: it
\* makes one alloc call, for the only region then allocated, of 4 slots.
C19_FirstGrowth ==
    [][(Grew /\ capacity = 0) =>
         /\ stats'.copied = stats.copied /\ stats'.frees = stats.frees
         /\ stats'.allocs = stats.allocs + 1
         /\ LiveRegions(heap) = {}
         /\ LiveRegions(heap') = {ptr'}
         /\ capacity' = 4 /\ heap'[ptr'].size = 4
         /\ len = 0 /\ len' = 1]_vars
\* the first push on a new container of four-byte elements, alloc having
\* refused no earlier attempt
C19_Witness ==
    /\ ret.op = "push_back" /\ ret.idx = 0 /\ status = "live"
    /\ stats.growths = 1 /\ stats.copied = 0 /\ stats.frees = 0
    /\ stats.allocs = 1 /\ capacity = 4

\* C20 as stated: after N push_back calls the growths have copied fewer
\* than 2 * N elements in total.
C20_CopiedBelowTwiceN == stats.copied < 2 * Len(pushed)
\* C20: after N push_back calls the growths have copied at most 2 * N
\* elements in total, and fewer than 2 * N when N >= 1.
C20_AmortizedCopies ==
    /\ stats.copied <= 2 * Len(pushed)
    /\ Len(pushed) >= 1 => stats.copied < 2 * Len(pushed)
\* nine pushes, two relocations of four and eight elements
C20_Witness == Len(pushed) = 9 /\ stats.copied = 12 /\ stats.growths = 3

\* C21: a push_back never leaves defined behaviour, and one that returns
\* wrote its element at slot len with len below the capacity it then has,
\* in the region ptr then names: an allocated region of capacity slots,
\* not the dangling sentinel.
C21_WriteInsideRegion ==
    [][ret'.op = "push_back" =>
         /\ status' # "ub"
         /\ status' = "live" =>
               /\ len < capacity'
               /\ ptr' # Dangling /\ ptr' \in LiveRegions(heap')
               /\ heap'[ptr'].size = capacity'
               /\ InRegion(heap', ptr', len)
               /\ heap'[ptr'].mem[len + 1] = ret'.val[1]]_vars
\* the push that followed the growth to eight one-byte slots: slot 4 of the
\* second region, the first one released
C21_Witness ==
    /\ ret.op = "push_back" /\ ret.idx = 4 /\ status = "live"
    /\ elemSize = 1 /\ ptr = Dangling + 2 /\ ~heap[Dangling + 1].live
    /\ InRegion(heap, ptr, 4) /\ heap[ptr].mem[5] = ret.val[1]

\* the smallest of 4, 8, 16, ... that is >= n, and 0 for n = 0
TightCapacity(n) ==
    IF n = 0 THEN 0
    ELSE LET Steps == {4 * 2 ^ k : k \in 0 .. WordBits} IN
         CHOOSE c \in Steps : c >= n /\ \A d \in Steps : d >= n => c <= d

\* C22: capacity is determined by len: 0 for len 0 and otherwise the
\* smallest of 4, 8, 16, ... that is >= len, hence below 2 * len once
\* len > 4; len is the number of elements pushed, whatever their values and
\* whatever was written through get_mut.
C22_CapacityTight ==
    /\ len = Len(pushed)
    /\ capacity = TightCapacity(len)
    /\ len > 4 => capacity < 2 * len
\* five elements in eight slots, after a write through get_mut
C22_Witness ==
    /\ len = 5 /\ capacity = 8 /\ written /\ status = "live"
    /\ pushed[1] # pushed[5]

\* the doubling of the current capacity fits a usize: grow's new_cap is one
\* value, greater than capacity, computed without a panic or a wrap
DoublingFits ==
    /\ capacity * GrowthFactor <= UsizeMax
    /\ \A nc \in new_cap(capacity) : ~nc.panic /\ nc.val > capacity
\* the layout of the region grow asks for exceeds isize::MAX bytes
LayoutRefused == \E nc \in new_cap(capacity) : ~layout_array(nc.val).ok

\* C24: for an element of at least one byte, the capacity stored is always
\* one whose doubling fits a usize; a push_back on a full container either
\* fails in the layout computation, before alloc is called and with
\* capacity as it was, or calls alloc for a capacity greater than the old
\* one, which it stores when it returns.
C24_DoublingNeverWraps ==
    [][elemSize >= 1 =>
         /\ DoublingFits /\ DoublingFits'
         /\ capacity * elemSize <= IsizeMax
         /\ (ret'.op = "push_back" /\ len >= capacity) =>
               IF LayoutRefused
               THEN /\ status' = "panicked"
                    /\ stats'.allocs = stats.allocs
                    /\ capacity' = capacity
               ELSE /\ stats'.allocs = stats.allocs + 1
                    /\ status' = "live" =>
                          /\ capacity' > capacity
                          /\ {capacity'} = {nc.val : nc \in new_cap(capacity)}]_vars
\* a full container of non-zero-sized elements whose growth failed in the
\* layout computation: the capacity it kept still doubles without a wrap
C24_Witness ==
    /\ elemSize >= 1 /\ status = "panicked" /\ ret.op = "push_back"
    /\ capacity > 0 /\ len = capacity
    /\ stats.allocs = stats.growths
    /\ capacity * 2 * elemSize > IsizeMax /\ capacity * 2 <= UsizeMax

\* the container of lib.rs as the main.rs copy is recorded
LibView ==
    [ptr |-> ptr, capacity |-> capacity, len |-> len, heap |-> heap,
     stats |-> stats, status |-> status, ret |-> ret]

\* C23: run on the same calls with the same allocator answers, the MyVec of
\* main.rs and the one of lib.rs return the same results, have the same
\* len, capacity, ptr and region contents after every call, end the same
\* way, and have made the same alloc calls, copies and dealloc calls.
C23_CopiesEquivalent == bin = LibView
\* both copies relocated four elements, released the first region and then
\* answered the same get
C23_Witness ==
    /\ bin.ret.op = "get" /\ bin.ret.idx = 4 /\ bin.ret.val = Some(2)
    /\ ret.val = Some(2)
    /\ bin.capacity = 8 /\ bin.stats.copied = 4 /\ bin.stats.frees = 1
    /\ capacity = 8 /\ stats.copied = 4 /\ stats.frees = 1
====
